---- MODULE Spec2Model ----
(***************************************************************************)
(* The agent loop of agent.py (process_ticket) and the four tool stubs,    *)
(* run against a scripted completion endpoint.                             *)
(*                                                                         *)
(* Texts are sequences of one-character strings, so that str.strip() is    *)
(* computed and not assumed.  An optional text (msg.content) is None or    *)
(* Some(t).  The arguments text of a tool call is modelled by what         *)
(* json.loads makes of it: garbage (raises), an object, or a scalar.       *)
(*                                                                         *)
(* The endpoint is the environment.  It answers every request with a       *)
(* failure, a plain message or a list of tool calls.  Three families of    *)
(* endpoint scripts are explored:                                          *)
(*   "free"     any calls from InvocationMenu, at most MaxFree calls in    *)
(*              the run and MaxCalls per round;                            *)
(*   "workflow" one well-formed call per round to a registered tool that   *)
(*              has no recorded result yet;                                *)
(*   "loop"     the first list of calls is repeated in every round.        *)
(***************************************************************************)
EXTENDS Integers, Sequences, FiniteSets, TLC

VARIABLES
    script,     \* endpoint: the family of the script being played
    freeLeft,   \* endpoint: calls the "free" script may still request
    nextId,     \* endpoint: next unused call identifier
    pc,         \* process_ticket: position ("round", "calls", "stub", "returned", "raised")
    rounds,     \* process_ticket: iterations of the for loop started
    messages,   \* process_ticket: the conversation
    results,    \* process_ticket: the result accumulator
    msg,        \* process_ticket: response.choices[0].message of the current round
    pending,    \* process_ticket: tool calls of msg not yet processed
    cur,        \* stub in progress: the call, its decoded arguments, its prompt
    apiCalls,   \* observer: requests sent to the endpoint, by kind
    failures,   \* observer: endpoint calls that failed
    stubReturn, \* observer: last text returned by each stub
    stubContent,\* observer: last response content received by each stub
    jsonText,   \* print_section: the text handed to _safe_json
    jsonOut     \* print_section: the texts _safe_json returned, in order

vars == <<script, freeLeft, nextId, pc, rounds, messages, results, msg,
          pending, cur, apiCalls, failures, stubReturn, stubContent,
          jsonText, jsonOut>>

\* ---------------------------------------------------------------- bounds
MaxFree == 2
MaxCalls == 2
MaxText == 3
MaxFreeLive == 1

\* ------------------------------------------------------------- constants
max_iterations == 10

\* ------------------------------------------------------------------ text
Whitespace == {" ", "\n"}

RECURSIVE LStrip(_)
LStrip(s) == IF s # <<>> /\ Head(s) \in Whitespace THEN LStrip(Tail(s)) ELSE s

RECURSIVE RStrip(_)
RStrip(s) ==
    IF s # <<>> /\ s[Len(s)] \in Whitespace
    THEN RStrip(SubSeq(s, 1, Len(s) - 1))
    ELSE s

\* str.strip()
Strip(s) == RStrip(LStrip(s))

None == <<>>
Some(t) == <<t>>

EmptyMap == [x \in {} |-> <<>>]

\* d[k] = v on a dict
Put(d, k, v) == [x \in (DOMAIN d) \cup {k} |-> IF x = k THEN v ELSE d[x]]

\* ------------------------------------------------------- registry, prompts
Params ==
    [analyze_ticket    |-> {"ticket_text"},
     classify_ticket   |-> {"ticket_text", "analysis"},
     extract_entities  |-> {"ticket_text"},
     generate_response |-> {"ticket_text", "analysis", "classification", "entities"}]

TOOL_MAP == DOMAIN Params

AGENT_SYSTEM == <<"AGENT_SYSTEM">>

ticket_text == <<"t">>

InitialMessages ==
    << [role |-> "system", content |-> AGENT_SYSTEM],
       [role |-> "user",
        content |-> <<"Process this support ticket:\n\n">> \o ticket_text] >>

\* (variant: the payload does not name the tool)
ErrorPayloadAnonymous(fn_name) == <<"{\"error\": \"Unknown tool\"}">>

\* json.dumps({"error": f"Unknown tool: {fn_name}"})
ErrorPayload(fn_name) == <<"{\"error\": \"Unknown tool: ", fn_name, "\"}">>

\* the user text a stub sends: the f-strings of the four tools
UserPrompt(fn_name, args) ==
    CASE fn_name = "analyze_ticket" -> args.ticket_text
      [] fn_name = "extract_entities" -> args.ticket_text
      [] fn_name = "classify_ticket" ->
            <<"Ticket:\n">> \o args.ticket_text
               \o <<"\n\nAnalysis:\n">> \o args.analysis
      [] fn_name = "generate_response" ->
            <<"Ticket:\n">> \o args.ticket_text
               \o <<"\n\nAnalysis:\n">> \o args.analysis
               \o <<"\n\nClassification:\n">> \o args.classification
               \o <<"\n\nEntities:\n">> \o args.entities

\* ------------------------------------------------------------- arguments
\* (variant: the arguments are decoded only once the tool is found)
DecodeAfterLookup(arguments) == FALSE

\* json.loads(tool_call.function.arguments) raises
DecodeRaises(arguments) == arguments.json = "garbage"

\* (variant: the later steps are refused until the analysis is recorded)
BindsAfterAnalysis(fn_name, arguments) ==
    /\ arguments.json = "object"
    /\ DOMAIN arguments.fields = Params[fn_name]
    /\ fn_name = "analyze_ticket" \/ "analyze_ticket" \in DOMAIN results

\* fn(**args) binds: args is a mapping whose keys are exactly fn's parameters
Binds(fn_name, arguments) ==
    /\ arguments.json = "object"
    /\ DOMAIN arguments.fields = Params[fn_name]

\* ------------------------------------------------- the endpoint's answers
Garbage == [json |-> "garbage", fields |-> EmptyMap]
Scalar == [json |-> "scalar", fields |-> EmptyMap]
Object(f) == [json |-> "object", fields |-> f]

ArgTexts == {<<"a">>, <<"b">>}

Objects ==
    {Object(EmptyMap), Object([ticket_text |-> ticket_text])}
    \cup {Object([ticket_text |-> ticket_text, analysis |-> a]) : a \in ArgTexts}
    \cup {Object([ticket_text |-> ticket_text, analysis |-> <<"a">>,
                  classification |-> <<"c">>, entities |-> <<"e">>])}

UnknownNames == {"bogus_tool", "final_summary"}

InvocationMenu ==
    {[name |-> n, arguments |-> a] : n \in TOOL_MAP, a \in {Garbage, Scalar} \cup Objects}
    \cup {[name |-> n, arguments |-> a] :
             n \in UnknownNames, a \in {Garbage, Scalar, Object(EmptyMap)}}

LoopMenu ==
    {[name |-> n, arguments |-> Object(EmptyMap)] : n \in UnknownNames}
    \cup {[name |-> "analyze_ticket",
           arguments |-> Object([ticket_text |-> ticket_text])],
          [name |-> "classify_ticket",
           arguments |-> Object([ticket_text |-> ticket_text, analysis |-> <<"b">>])]}

WorkflowMenu ==
    {c \in InvocationMenu : c.name \in TOOL_MAP /\ Binds(c.name, c.arguments)}

StubTexts == {<<"a">>, <<"b", " ">>}
LoopText == <<"a">>

FinalContents ==
    {None, Some(<<>>), Some(<<" ">>), Some(<<"a">>), Some(<<" ", "b", "\n">>)}

\* lists of 1..n elements of S
ListsUpTo(S, n) == UNION {[1..k -> S] : k \in 1..n}

\* the tool calls of a response: the requested invocations with fresh ids
ToolCalls(list, firstId) ==
    [i \in 1..Len(list) |->
        [id |-> firstId + i - 1,
         function |-> [name |-> list[i].name, arguments |-> list[i].arguments]]]

Requested(calls) ==
    [i \in 1..Len(calls) |->
        [name |-> calls[i].function.name, arguments |-> calls[i].function.arguments]]

\* the lists of invocations the script may request in this state
Offers ==
    CASE script = "free" ->
            {l \in ListsUpTo(InvocationMenu, MaxCalls) : Len(l) <= freeLeft}
      [] script = "workflow" ->
            {<<c>> : c \in {w \in WorkflowMenu : w.name \notin DOMAIN results}}
      [] script = "loop" ->
            IF Len(messages) = Len(InitialMessages)
            THEN ListsUpTo(LoopMenu, MaxCalls)
            ELSE {Requested(msg.tool_calls)}

StubOffers == IF script = "loop" THEN {LoopText} ELSE StubTexts

\* ------------------------------------------------------------------ Init
NoCall == [id |-> 0, function |-> [name |-> "", arguments |-> Garbage]]
NoStub == [call |-> NoCall, args |-> EmptyMap, user |-> <<>>]
NoMessage == [role |-> "assistant", content |-> None, tool_calls |-> <<>>]

\* process_ticket is entered; nothing has been pretty-printed
Entered ==
    /\ nextId = 1
    /\ pc = "round"
    /\ rounds = 0
    /\ messages = InitialMessages
    /\ results = EmptyMap
    /\ msg = NoMessage
    /\ pending = <<>>
    /\ cur = NoStub
    /\ apiCalls = [round |-> 0, stub |-> 0]
    /\ failures = 0
    /\ stubReturn = EmptyMap
    /\ stubContent = EmptyMap
    /\ jsonOut = <<>>

Start == freeLeft = MaxFree /\ Entered

Init ==
    /\ script \in {"free", "workflow", "loop"}
    /\ Start
    /\ jsonText = <<>>

\* --------------------------------------------------------- steps of the code
\* (variant: only the loop's requests reach the endpoint)
CountRequestLoopOnly(calls, kind) ==
    IF kind = "round" THEN [calls EXCEPT ![kind] = @ + 1] ELSE calls

\* (variant: the request is sent again after the first attempt)
CountRequestTwice(calls, kind) == [calls EXCEPT ![kind] = @ + 2]

\* the endpoint is sent one more request of this kind
CountRequest(calls, kind) == [calls EXCEPT ![kind] = @ + 1]

\* (variant: the exception is swallowed and the loop goes on)
Swallow == "round"

\* an exception leaves process_ticket: nothing catches it
Propagate == "raised"

\* (variant: the loop is entered again once its rounds are used up)
AfterLoopRestart == "round"

\* return results after the for loop
AfterLoop == "returned"

\* (variant: the content is recorded as received)
FinalSummaryUnstripped(content) == IF content # None THEN content[1] ELSE <<>>

\* msg.content.strip() if msg.content else ""
FinalSummary(content) ==
    IF content # None /\ content[1] # <<>> THEN Strip(content[1]) ELSE <<>>

\* (variant: the content is returned as received)
LlmTextVerbatim(content) == content

\* _llm: resp.choices[0].message.content.strip()
LlmText(content) == Strip(content)

\* (variant: the result of an unregistered name is filed under "error")
RecordUnknownUnderError(acc, fn_name, tool_result) ==
    Put(acc, IF fn_name \in TOOL_MAP \cup {"final_summary"} THEN fn_name ELSE "error",
        tool_result)

\* results[fn_name] = tool_result
Record(acc, fn_name, tool_result) == Put(acc, fn_name, tool_result)

\* (variant: the message is tagged with the neighbouring identifier)
ToolMessageOffByOne(tool_call, tool_result) ==
    [role |-> "tool", tool_call_id |-> tool_call.id - 1, content |-> tool_result]

\* the dict appended for one tool call
ToolMessage(tool_call, tool_result) ==
    [role |-> "tool", tool_call_id |-> tool_call.id, content |-> tool_result]

\* (variant: the inner loop stops after the first call)
AfterCallSkipRest(rest) == "round"

\* the end of one pass of the inner for loop: next call, or next round
AfterCall(rest) == IF rest = <<>> THEN "round" ELSE "calls"

\* (variant: the new message takes the place of the last one)
ReplaceLastMessage(conversation, m) ==
    [conversation EXCEPT ![Len(conversation)] = m]

\* messages.append(...)
AppendMessage(conversation, m) == Append(conversation, m)

\* (variant: the result is fed back but not stored)
FinishWithoutRecord(tool_call, tool_result) ==
    /\ results' = results
    /\ messages' = AppendMessage(messages, ToolMessage(tool_call, tool_result))
    /\ pending' = Tail(pending)
    /\ pc' = AfterCall(Tail(pending))

\* the tool result is recorded and fed back into the conversation
Finish(tool_call, tool_result) ==
    /\ results' = Record(results, tool_call.function.name, tool_result)
    /\ messages' = AppendMessage(messages, ToolMessage(tool_call, tool_result))
    /\ pending' = Tail(pending)
    /\ pc' = AfterCall(Tail(pending))

\* ----------------------------------------------------------------- rounds
\* client.chat.completions.create(...) of the loop raises
RoundFails ==
    /\ pc = "round"
    /\ rounds < max_iterations
    /\ rounds' = rounds + 1
    /\ apiCalls' = CountRequest(apiCalls, "round")
    /\ failures' = failures + 1
    /\ pc' = Propagate
    /\ UNCHANGED <<script, freeLeft, nextId, messages, results, msg, pending,
                   cur, stubReturn, stubContent,
                   jsonText, jsonOut>>

\* the response carries no tool calls: final summary, break, return
RoundFinal ==
    /\ pc = "round"
    /\ rounds < max_iterations
    /\ \E content \in FinalContents :
          /\ msg' = [role |-> "assistant", content |-> content, tool_calls |-> <<>>]
          /\ results' = Record(results, "final_summary", FinalSummary(content))
    /\ rounds' = rounds + 1
    /\ apiCalls' = CountRequest(apiCalls, "round")
    /\ pc' = "returned"
    /\ UNCHANGED <<script, freeLeft, nextId, messages, pending, cur, failures,
                   stubReturn, stubContent,
                   jsonText, jsonOut>>

\* the response carries tool calls: the assistant message is appended
RoundToolCalls ==
    /\ pc = "round"
    /\ rounds < max_iterations
    /\ \E list \in Offers :
          /\ msg' = [role |-> "assistant", content |-> None,
                     tool_calls |-> ToolCalls(list, nextId)]
          /\ nextId' = nextId + Len(list)
          /\ freeLeft' = IF script = "free" THEN freeLeft - Len(list) ELSE freeLeft
    /\ messages' = AppendMessage(messages, msg')
    /\ pending' = msg'.tool_calls
    /\ rounds' = rounds + 1
    /\ apiCalls' = CountRequest(apiCalls, "round")
    /\ pc' = "calls"
    /\ UNCHANGED <<script, results, cur, failures, stubReturn, stubContent,
                   jsonText, jsonOut>>

\* range(max_iterations) is exhausted: return results
LoopExhausted ==
    /\ pc = "round"
    /\ rounds = max_iterations
    /\ pc' = AfterLoop
    /\ UNCHANGED <<script, freeLeft, nextId, rounds, messages, results, msg,
                   pending, cur, apiCalls, failures, stubReturn, stubContent,
                   jsonText, jsonOut>>

\* ------------------------------------------------------------- tool calls
\* json.loads raises on the arguments text
ArgumentsRaise ==
    /\ pc = "calls"
    /\ DecodeRaises(Head(pending).function.arguments)
    /\ pc' = Propagate
    /\ UNCHANGED <<script, freeLeft, nextId, rounds, messages, results, msg,
                   pending, cur, apiCalls, failures, stubReturn, stubContent,
                   jsonText, jsonOut>>

\* TOOL_MAP.get(fn_name) is None: the error payload is the tool result
UnknownTool ==
    /\ pc = "calls"
    /\ ~DecodeRaises(Head(pending).function.arguments)
    /\ Head(pending).function.name \notin TOOL_MAP
    /\ Finish(Head(pending), ErrorPayload(Head(pending).function.name))
    /\ UNCHANGED <<script, freeLeft, nextId, rounds, msg, cur, apiCalls,
                   failures, stubReturn, stubContent,
                   jsonText, jsonOut>>

\* fn(**args) raises TypeError: args is no mapping of fn's parameters
CallRaises ==
    /\ pc = "calls"
    /\ ~DecodeRaises(Head(pending).function.arguments)
    /\ Head(pending).function.name \in TOOL_MAP
    /\ ~Binds(Head(pending).function.name, Head(pending).function.arguments)
    /\ pc' = Propagate
    /\ UNCHANGED <<script, freeLeft, nextId, rounds, messages, results, msg,
                   pending, cur, apiCalls, failures, stubReturn, stubContent,
                   jsonText, jsonOut>>

\* fn(**args): the stub builds its prompt and sends it through _llm
CallTool ==
    /\ pc = "calls"
    /\ ~DecodeRaises(Head(pending).function.arguments)
    /\ Head(pending).function.name \in TOOL_MAP
    /\ Binds(Head(pending).function.name, Head(pending).function.arguments)
    /\ cur' = [call |-> Head(pending),
               args |-> Head(pending).function.arguments.fields,
               user |-> UserPrompt(Head(pending).function.name,
                                   Head(pending).function.arguments.fields)]
    /\ apiCalls' = CountRequest(apiCalls, "stub")
    /\ pc' = "stub"
    /\ UNCHANGED <<script, freeLeft, nextId, rounds, messages, results, msg,
                   pending, failures, stubReturn, stubContent,
                   jsonText, jsonOut>>

\* client.chat.completions.create(...) of _llm raises
StubFails ==
    /\ pc = "stub"
    /\ failures' = failures + 1
    /\ pc' = Propagate
    /\ UNCHANGED <<script, freeLeft, nextId, rounds, messages, results, msg,
                   pending, cur, apiCalls, stubReturn, stubContent,
                   jsonText, jsonOut>>

\* the response of _llm has no content: None.strip() raises
StubNoContent ==
    /\ pc = "stub"
    /\ pc' = Propagate
    /\ UNCHANGED <<script, freeLeft, nextId, rounds, messages, results, msg,
                   pending, cur, apiCalls, failures, stubReturn, stubContent,
                   jsonText, jsonOut>>

\* _llm returns the stripped text; the stub returns it to the loop
StubReturns ==
    /\ pc = "stub"
    /\ \E content \in StubOffers :
          /\ stubReturn' = Put(stubReturn, cur.call.function.name, LlmText(content))
          /\ stubContent' = Put(stubContent, cur.call.function.name, content)
          /\ Finish(cur.call, LlmText(content))
    /\ cur' = NoStub
    /\ UNCHANGED <<script, freeLeft, nextId, rounds, msg, apiCalls, failures,
                   jsonText, jsonOut>>

Next ==
    \/ RoundFails
    \/ RoundFinal
    \/ RoundToolCalls
    \/ LoopExhausted
    \/ ArgumentsRaise
    \/ UnknownTool
    \/ CallRaises
    \/ CallTool
    \/ StubFails
    \/ StubNoContent
    \/ StubReturns

Spec == Init /\ [][Next]_vars

\* every call of the endpoint returns or fails, and every listed invocation is
\* worked off: the run is never left waiting
InitLive ==
    /\ script \in {"free", "workflow", "loop"}
    /\ freeLeft = MaxFreeLive
    /\ Entered
    /\ jsonText = <<>>

SpecLive == InitLive /\ [][Next]_vars /\ WF_vars(Next)

\* ------------------------------------------------------- the pretty-printer
\* JSON texts are sequences of tokens: punctuation, whitespace, scalars.
\* A scalar token stands for a number, a string or a literal as written;
\* Canon gives the text json.dumps writes for the value json.loads reads.
Canon ==
    [n \in {"1", "1e2", "100.0", "true", "\"k\"", "\"é\"", "\"\\u00e9\""} |->
        CASE n = "1e2" -> "100.0"
          [] n = "\"é\"" -> "\"\\u00e9\""
          [] OTHER -> n]

Scalars == DOMAIN Canon
StringTokens == {"\"k\"", "\"é\"", "\"\\u00e9\""}
JsonWhitespace == {" ", "\n"}

RECURSIVE SkipWs(_)
SkipWs(s) ==
    IF s # <<>> /\ Head(s) \in JsonWhitespace THEN SkipWs(Tail(s)) ELSE s

\* the values json.loads builds
ScalarValue(tok) == [t |-> "scalar", tok |-> tok, keys |-> <<>>, items |-> <<>>]
ArrayValue(items) == [t |-> "array", tok |-> "", keys |-> <<>>, items |-> items]
ObjectValue(keys, items) == [t |-> "object", tok |-> "", keys |-> keys, items |-> items]

Parsed(val, rest) == [ok |-> TRUE, val |-> val, rest |-> rest]
ParseError == [ok |-> FALSE, val |-> ScalarValue(""), rest |-> <<>>]

\* d[k] = v while an object is read: a repeated key keeps its first place
\* and takes the last value
DictSet(obj, k, v) ==
    IF \E i \in DOMAIN obj.keys : obj.keys[i] = k
    THEN ObjectValue(obj.keys,
                     [i \in DOMAIN obj.items |->
                         IF obj.keys[i] = k THEN v ELSE obj.items[i]])
    ELSE ObjectValue(Append(obj.keys, k), Append(obj.items, v))

RECURSIVE ParseValue(_), ParseItems(_, _), ParseMembers(_, _)

\* one value at the head of s, after optional whitespace
ParseValue(s0) ==
    LET s == SkipWs(s0) IN
    IF s = <<>> THEN ParseError
    ELSE IF Head(s) \in Scalars THEN Parsed(ScalarValue(Canon[Head(s)]), Tail(s))
    ELSE IF Head(s) = "[" THEN
        LET t == SkipWs(Tail(s)) IN
        IF t # <<>> /\ Head(t) = "]"
        THEN Parsed(ArrayValue(<<>>), Tail(t))
        ELSE ParseItems(t, <<>>)
    ELSE IF Head(s) = "{" THEN
        LET t == SkipWs(Tail(s)) IN
        IF t # <<>> /\ Head(t) = "}"
        THEN Parsed(ObjectValue(<<>>, <<>>), Tail(t))
        ELSE ParseMembers(t, ObjectValue(<<>>, <<>>))
    ELSE ParseError

\* the elements of an array up to its closing bracket
ParseItems(s, acc) ==
    LET r == ParseValue(s)
        t == SkipWs(r.rest)
    IN  IF ~r.ok \/ t = <<>> THEN ParseError
        ELSE IF Head(t) = "," THEN ParseItems(Tail(t), Append(acc, r.val))
        ELSE IF Head(t) = "]" THEN Parsed(ArrayValue(Append(acc, r.val)), Tail(t))
        ELSE ParseError

\* the members of an object up to its closing brace
ParseMembers(s0, obj) ==
    LET s == SkipWs(s0) IN
    IF s = <<>> \/ Head(s) \notin StringTokens THEN ParseError
    ELSE
        LET c == SkipWs(Tail(s)) IN
        IF c = <<>> \/ Head(c) # ":" THEN ParseError
        ELSE
            LET r == ParseValue(Tail(c))
                t == SkipWs(r.rest)
            IN  IF ~r.ok \/ t = <<>> THEN ParseError
                ELSE IF Head(t) = ","
                    THEN ParseMembers(Tail(t), DictSet(obj, Canon[Head(s)], r.val))
                ELSE IF Head(t) = "}"
                    THEN Parsed(DictSet(obj, Canon[Head(s)], r.val), Tail(t))
                ELSE ParseError

\* json.loads(text): one value and nothing but whitespace after it
JsonLoads(text) ==
    LET r == ParseValue(text) IN
    IF r.ok /\ SkipWs(r.rest) = <<>> THEN r ELSE ParseError

RECURSIVE Spaces(_)
Spaces(n) == IF n = 0 THEN <<>> ELSE <<" ">> \o Spaces(n - 1)

\* the line break of json.dumps(..., indent=2) at a nesting level
NewLine(level) == <<"\n">> \o Spaces(2 * level)

RECURSIVE JsonDumps(_, _), DumpItems(_, _, _)

\* json.dumps(value, indent=2), written at a nesting level
JsonDumps(value, level) ==
    CASE value.t = "scalar" -> <<value.tok>>
      [] value.t = "array" ->
            IF value.items = <<>> THEN <<"[", "]">>
            ELSE <<"[">> \o DumpItems(value, 1, level + 1)
                    \o NewLine(level) \o <<"]">>
      [] value.t = "object" ->
            IF value.items = <<>> THEN <<"{", "}">>
            ELSE <<"{">> \o DumpItems(value, 1, level + 1)
                    \o NewLine(level) \o <<"}">>

\* the elements (or members) from position i on, one per line
DumpItems(value, i, level) ==
    IF i > Len(value.items) THEN <<>>
    ELSE NewLine(level)
            \o (IF value.t = "object" THEN <<value.keys[i], ":", " ">> ELSE <<>>)
            \o JsonDumps(value.items[i], level)
            \o (IF i < Len(value.items) THEN <<",">> ELSE <<>>)
            \o DumpItems(value, i + 1, level)

\* (variant: text that does not parse is dropped)
safe_json_or_empty(text) ==
    IF JsonLoads(text).ok THEN JsonDumps(JsonLoads(text).val, 0) ELSE <<>>

\* _safe_json
safe_json(text) ==
    IF JsonLoads(text).ok THEN JsonDumps(JsonLoads(text).val, 0) ELSE text

\* the texts handed to the pretty-printer
InputTokens ==
    {"[", "]", "{", "}", ",", ":", " ", "\n", "1", "1e2", "true", "\"k\"", "\"é\"", "x"}

Samples ==
    { <<"{", "\"k\"", ":", "1", ",", "\"k\"", ":", "1e2", "}">>,
      <<"{", "\"é\"", ":", "1", ",", "\"k\"", ":", "[", "1e2", "]", ",",
        "\"\\u00e9\"", ":", "{", "}", "}">>,
      <<"[", "[", "1", ",", "1e2", "]", ",", "[", "]", ",", "{", "\"k\"", ":",
        "{", "\"k\"", ":", "true", "}", "}", "]">>,
      <<"{", "\n", " ", " ", "\"k\"", ":", " ", "100.0", "\n", "}">> }

\* s without its i-th token
Without(s, i) == SubSeq(s, 1, i - 1) \o SubSeq(s, i + 1, Len(s))

\* s with a blank before its i-th token
Spaced(s, i) == SubSeq(s, 1, i - 1) \o <<" ">> \o SubSeq(s, i, Len(s))

\* two numerals side by side would read as one longer numeral, for which the
\* alphabet has no token
Numerals == {"1", "1e2", "100.0"}
Lexed(s) == \A i \in 1..(Len(s) - 1) : ~(s[i] \in Numerals /\ s[i + 1] \in Numerals)

JsonTexts ==
    {s \in UNION {[1..n -> InputTokens] : n \in 0..MaxText}
            \cup Samples
            \cup UNION {{Without(t, i) : i \in 1..Len(t)} : t \in Samples}
            \cup UNION {{Spaced(t, i) : i \in 1..Len(t)} : t \in Samples} :
        Lexed(s)}

InitJson ==
    /\ script = "free"
    /\ Start
    /\ jsonText \in JsonTexts

\* print_section prints _safe_json(content)
PrettyPrint ==
    /\ jsonOut = <<>>
    /\ jsonOut' = <<safe_json(jsonText)>>
    /\ UNCHANGED <<script, freeLeft, nextId, pc, rounds, messages, results, msg,
                   pending, cur, apiCalls, failures, stubReturn, stubContent,
                   jsonText>>

\* what was printed is pretty-printed once more
PrettyPrintAgain ==
    /\ Len(jsonOut) = 1
    /\ jsonOut' = Append(jsonOut, safe_json(jsonOut[1]))
    /\ UNCHANGED <<script, freeLeft, nextId, pc, rounds, messages, results, msg,
                   pending, cur, apiCalls, failures, stubReturn, stubContent,
                   jsonText>>

NextJson ==
    \/ PrettyPrint
    \/ PrettyPrintAgain

SpecJson == InitJson /\ [][NextJson]_vars

\* ------------------------------------------------------------------ types
TypeOK ==
    /\ script \in {"free", "workflow", "loop"}
    /\ freeLeft \in 0..MaxFree
    /\ pc \in {"round", "calls", "stub", "returned", "raised"}
    /\ rounds \in 0..max_iterations
    /\ failures \in 0..1
    /\ Len(pending) <= Len(msg.tool_calls)

\* ------------------------------------------------ vocabulary of the claims
FiveKeys == TOOL_MAP \cup {"final_summary"}

Assistants == {i \in DOMAIN messages : messages[i].role = "assistant"}
ToolResults == {i \in DOMAIN messages : messages[i].role = "tool"}

\* the calls of the assistant messages of the conversation
ConversationCalls ==
    UNION {{messages[i].tool_calls[j] : j \in DOMAIN messages[i].tool_calls} :
              i \in Assistants}

RequestedNames == {c.function.name : c \in ConversationCalls}

\* the calls that have a tool-result message
Answered ==
    {c \in ConversationCalls : \E i \in ToolResults : messages[i].tool_call_id = c.id}

\* the text of an optional content as the endpoint sent it
RawText(content) == IF content = None THEN <<>> ELSE content[1]

Total == apiCalls.round + apiCalls.stub

\* ---------------------------------------------------------------------- C1
\* C1 as stated: every key of the returned mapping is one of the four
\* operation names or final_summary.
C1_OnlyFiveKeys == pc = "returned" => DOMAIN results \subseteq FiveKeys

\* C1 amended: every key of the returned mapping is one of the four
\* operation names, final_summary, or the name of an unregistered tool the
\* model requested, and such a key holds the error payload naming it.
C1_KeysAreFiveOrRequested ==
    pc = "returned" =>
        \A k \in DOMAIN results :
            \/ k \in FiveKeys
            \/ /\ k \in RequestedNames
               /\ results[k] = ErrorPayload(k)

C1_Witness ==
    /\ pc = "returned"
    /\ "bogus_tool" \in DOMAIN results
    /\ "final_summary" \in DOMAIN results
    /\ DOMAIN results \cap TOOL_MAP # {}

\* ---------------------------------------------------------------------- C2
\* C2 as stated: a first response without tool calls gives exactly
\* {final_summary: the response text, empty when there is no content}, and
\* no tool is executed.
C2_FirstResponseTextAsReceived ==
    (pc = "returned" /\ rounds = 1) =>
        /\ results = ("final_summary" :> RawText(msg.content))
        /\ Len(messages) = Len(InitialMessages)
        /\ apiCalls.stub = 0

\* C2 amended: the value of final_summary is the response text with leading
\* and trailing whitespace stripped (empty when there is no content).
C2_FirstResponseTextStripped ==
    (pc = "returned" /\ rounds = 1) =>
        /\ results = ("final_summary" :> Strip(RawText(msg.content)))
        /\ Len(messages) = Len(InitialMessages)
        /\ apiCalls.stub = 0

C2_Witness ==
    /\ pc = "returned"
    /\ rounds = 1
    /\ msg.content = Some(<<" ", "b", "\n">>)
    /\ results = ("final_summary" :> <<"b">>)

\* ---------------------------------------------------------------------- C3
\* C3: an answered call to an unregistered tool (arguments a JSON object)
\* has its error payload in the accumulator under its name and in its
\* tool-result message, and the returned mapping holds that entry.
C3_UnknownToolEntryKept ==
    \A c \in Answered :
        (c.function.name \notin TOOL_MAP /\ c.function.arguments.json = "object") =>
            /\ \E i \in ToolResults :
                  /\ messages[i].tool_call_id = c.id
                  /\ messages[i].content = ErrorPayload(c.function.name)
            /\ c.function.name \in DOMAIN results
            /\ results[c.function.name] = ErrorPayload(c.function.name)

\* ---------------------------------------------------------------------- C4
\* C4: never more than 10 rounds; a return after 10 tool-calling rounds
\* delivers a mapping without final_summary.
C4_CapWithoutSummary ==
    /\ rounds <= max_iterations
    /\ (pc = "returned" /\ rounds = max_iterations /\ msg.tool_calls # <<>>) =>
           "final_summary" \notin DOMAIN results

\* ---------------------------------------------------------------------- C5
\* C5: every tool-result message carries an identifier of the nearest
\* assistant message before it, and there is such a message.
C5_ResultAnswersNearestAssistant ==
    \A i \in ToolResults :
        \E j \in Assistants :
            /\ j < i
            /\ \A k \in Assistants : k < i => k <= j
            /\ messages[i].tool_call_id \in
                  {messages[j].tool_calls[n].id : n \in DOMAIN messages[j].tool_calls}

C5_Witness ==
    \E i \in ToolResults :
        /\ Cardinality({j \in Assistants : j < i}) >= 2
        /\ messages[i - 1].role = "tool"

\* ---------------------------------------------------------------------- C6
\* C6: classify_ticket is invoked with the analysis text recorded under
\* analyze_ticket at that time.
C6_AnalysisIsRecordedAnalysis ==
    (/\ pc = "stub"
     /\ cur.call.function.name = "classify_ticket"
     /\ "analyze_ticket" \in DOMAIN results) =>
        cur.args.analysis = results["analyze_ticket"]

\* ---------------------------------------------------------------------- C7
\* four rounds of one call each, to the four registered tools, then a text
FourToolsThenText ==
    /\ pc = "returned"
    /\ rounds = 5
    /\ msg.tool_calls = <<>>
    /\ msg.content # None
    /\ \A i \in Assistants : Len(messages[i].tool_calls) = 1
    /\ RequestedNames = TOOL_MAP

\* C7 as stated: the mapping has the five keys, each operation holds its
\* stub's text, and final_summary is the text T of the last response.
C7_FiveKeysSummaryAsReceived ==
    FourToolsThenText =>
        /\ DOMAIN results = FiveKeys
        /\ \A n \in TOOL_MAP : results[n] = stubReturn[n]
        /\ results["final_summary"] = msg.content[1]

\* C7 amended: final_summary is T with leading and trailing whitespace
\* stripped.
C7_FiveKeysSummaryStripped ==
    FourToolsThenText =>
        /\ DOMAIN results = FiveKeys
        /\ \A n \in TOOL_MAP : results[n] = stubReturn[n]
        /\ results["final_summary"] = Strip(msg.content[1])

C7_Witness ==
    /\ FourToolsThenText
    /\ msg.content = Some(<<"a">>)
    /\ results["analyze_ticket"] # results["classify_ticket"]

\* ---------------------------------------------------------------------- C8
\* C8: every returned dictionary has a final_summary key.
C8_SummaryAlwaysReturned == pc = "returned" => "final_summary" \in DOMAIN results

\* ---------------------------------------------------------------------- C9
\* C9: once an endpoint call has failed, process_ticket has raised: the
\* call is not retried and no mapping is returned.
C9_FailurePropagates == failures > 0 => (pc = "raised" /\ failures = 1)

C9_Witness ==
    /\ failures = 1
    /\ pc = "raised"
    /\ cur # NoStub
    /\ rounds > 1
    /\ DOMAIN results # {}

\* --------------------------------------------------------------------- C10
\* C10 as stated: the requests sent to the endpoint are as many as the
\* rounds.
C10_RequestsEqualRounds == Total = rounds

\* C10 amended: the loop sends one request per round; the requests the
\* stubs send come on top of these.
C10_OneLoopRequestPerRound ==
    /\ apiCalls.round = rounds
    /\ Total = rounds + apiCalls.stub

C10_Witness ==
    /\ pc = "returned"
    /\ rounds = max_iterations
    /\ apiCalls.stub > 0

\* --------------------------------------------------------------------- C11
Least(S) == CHOOSE x \in S : \A y \in S : x <= y
Greatest(S) == CHOOSE x \in S : \A y \in S : x >= y

\* the assistant messages after position j
Later(j) == {k \in Assistants : k > j}

\* the number of messages between the assistant message at j and the next one
Block(j) == (IF Later(j) = {} THEN Len(messages) ELSE Least(Later(j)) - 1) - j

\* C11: each assistant message is followed by the tool-result messages of
\* its calls, in the listed order; while its calls are being processed the
\* answered ones are a prefix of the list, and once the round is over every
\* call has exactly one answer.
C11_CallsAnsweredInOrder ==
    \A j \in Assistants :
        /\ Block(j) <= Len(messages[j].tool_calls)
        /\ \A k \in 1..Block(j) :
              /\ messages[j + k].role = "tool"
              /\ messages[j + k].tool_call_id = messages[j].tool_calls[k].id
        /\ (Later(j) # {} \/ pc \in {"round", "returned"}) =>
              Block(j) = Len(messages[j].tool_calls)
        /\ (Later(j) = {} /\ pc \in {"calls", "stub"}) =>
              Block(j) = Len(messages[j].tool_calls) - Len(pending)

C11_Witness ==
    /\ pc = "round"
    /\ \E j \in Assistants :
          /\ Len(messages[j].tool_calls) = 2
          /\ Len(messages) = j + 2
          /\ messages[j + 2].tool_call_id = messages[j].tool_calls[2].id

\* --------------------------------------------------------------------- C12
\* the call a tool-result message answers
CallOf(i) == CHOOSE c \in ConversationCalls : c.id = messages[i].tool_call_id

\* the tool-result messages of the calls to this name
ResultsOf(fn_name) == {i \in ToolResults : CallOf(i).function.name = fn_name}

\* C12: the accumulator entry of every invoked tool name is the result of
\* the most recent invocation of that name.
C12_EntryIsLatestResult ==
    \A c \in Answered :
        /\ c.function.name \in DOMAIN results
        /\ results[c.function.name] =
              messages[Greatest(ResultsOf(c.function.name))].content

\* --------------------------------------------------------------------- C13
\* the stubs that have sent their request
StubsStarted ==
    Cardinality({c \in Answered : c.function.name \in TOOL_MAP})
        + (IF cur # NoStub THEN 1 ELSE 0)

\* C13 as stated: a stub sends one request and returns the text of the
\* response character for character.
C13_StubTextVerbatim ==
    /\ apiCalls.stub = StubsStarted
    /\ \A n \in DOMAIN stubReturn : stubReturn[n] = stubContent[n]

\* C13 amended: a stub sends one request and returns the text of the
\* response with leading and trailing whitespace stripped.
C13_StubTextStripped ==
    /\ apiCalls.stub = StubsStarted
    /\ \A n \in DOMAIN stubReturn : stubReturn[n] = Strip(stubContent[n])

C13_Witness ==
    \E n \in DOMAIN stubReturn :
        /\ stubContent[n] = <<"b", " ">>
        /\ stubReturn[n] = <<"b">>
        /\ results[n] = <<"b">>

\* --------------------------------------------------------------------- C14
\* every response so far requested bogus_tool and nothing else
BogusEveryRound ==
    /\ rounds >= 1
    /\ failures = 0
    /\ msg.tool_calls # <<>>
    /\ RequestedNames = {"bogus_tool"}

BogusOutcome ==
    /\ pc # "raised"
    /\ pc = "returned" =>
          /\ rounds = max_iterations
          /\ results["bogus_tool"] =
                <<"{\"error\": \"Unknown tool: ", "bogus_tool", "\"}">>

\* C14 as stated: with bogus_tool requested in every round, process_ticket
\* does not raise, returns only after 10 rounds, and the bogus_tool entry is
\* the error payload naming it.
C14_BogusRunsToTheCap == BogusEveryRound => BogusOutcome

\* C14 amended: the same, for requests whose arguments text is valid JSON.
C14_DecodableBogusRunsToTheCap ==
    (/\ BogusEveryRound
     /\ \A c \in ConversationCalls : c.function.arguments.json # "garbage") =>
        BogusOutcome

C14_Witness ==
    /\ BogusEveryRound
    /\ pc = "returned"
    /\ rounds = max_iterations
    /\ Len(messages) > Len(InitialMessages) + 2 * max_iterations

\* --------------------------------------------------------------------- C15
\* C15: text that is not valid JSON is returned unchanged, and pretty-printing
\* what the pretty-printer returned returns it unchanged.
C15_PrettyPrintStable ==
    /\ (Len(jsonOut) >= 1 /\ ~JsonLoads(jsonText).ok) => jsonOut[1] = jsonText
    /\ (Len(jsonOut) >= 1 /\ JsonLoads(jsonText).ok) => JsonLoads(jsonOut[1]).ok
    /\ Len(jsonOut) = 2 => jsonOut[2] = jsonOut[1]

C15_Witness ==
    /\ Len(jsonOut) = 2
    /\ jsonText = <<"{", "\"k\"", ":", "1", ",", "\"k\"", ":", "1e2", "}">>
    /\ jsonOut[1] = <<"{", "\n", " ", " ", "\"k\"", ":", " ", "100.0", "\n", "}">>
    /\ jsonOut[2] = jsonOut[1]

\* --------------------------------------------------------------------- C16
\* C16: the conversation always starts with the system message and the user
\* message wrapping the ticket, and every step keeps the messages already
\* present unchanged and in place, adding only at the end.
C16_ConversationAppendOnly ==
    /\ [](Len(messages) >= 2 /\ SubSeq(messages, 1, 2) = InitialMessages)
    /\ [][/\ Len(messages') >= Len(messages)
          /\ SubSeq(messages', 1, Len(messages)) = messages]_vars

C16_Witness ==
    /\ pc = "returned"
    /\ Len(messages) >= 6
    /\ \E i, j \in DOMAIN messages :
          /\ i < j
          /\ messages[i].role = "assistant"
          /\ messages[j].role = "assistant"

\* --------------------------------------------------------------------- C17
\* the step that receives a response without tool calls
NoToolResponse == pc = "round" /\ pc' = "returned" /\ rounds' = rounds + 1

\* C17: the first response without tool calls records final_summary and ends
\* the run: nothing is appended to the conversation, no stub runs, nothing
\* follows, and the entries recorded for tools in earlier rounds are kept.
C17_TextResponseEndsRunKeepingEntries ==
    /\ [](pc = "returned" => ~ENABLED Next)
    /\ [][NoToolResponse =>
            /\ messages' = messages
            /\ apiCalls'.stub = apiCalls.stub
            /\ "final_summary" \in DOMAIN results'
            /\ \A k \in DOMAIN results :
                  k \in DOMAIN results' /\ results'[k] = results[k]]_vars

\* --------------------------------------------------------------------- C18
\* C18: every run eventually returns a mapping or raises, whatever the
\* endpoint answers.
C18_Terminates == <>(pc \in {"returned", "raised"})

\* a model that asks for tools in every round is stopped by the cap
C18_Witness ==
    /\ script = "loop"
    /\ pc = "returned"
    /\ rounds = max_iterations
    /\ Cardinality(Assistants) = max_iterations

\* --------------------------------------------------------------------- C19
\* the next call names a registered tool and gives it exactly its parameters
Ready ==
    /\ pc = "calls"
    /\ Head(pending).function.name \in TOOL_MAP
    /\ Head(pending).function.arguments.json = "object"
    /\ DOMAIN Head(pending).function.arguments.fields
          = Params[Head(pending).function.name]

\* C19: a registered tool that is requested is executed and recorded whatever
\* ran before: the call is started whatever the accumulator holds, and the
\* stub's return is recorded under the tool's name and fed back.
C19_NoOrderEnforced ==
    /\ [](Ready => ENABLED Next)
    /\ [][Ready => (pc' = "stub" /\ cur'.call = Head(pending))]_vars
    /\ [][(pc = "stub" /\ pc' # "raised") =>
            /\ cur.call.function.name \in DOMAIN results'
            /\ messages' = Append(messages,
                  [role |-> "tool", tool_call_id |-> cur.call.id,
                   content |-> results'[cur.call.function.name]])]_vars

\* a run that returned a summary after generate_response and classify_ticket
\* ran without analyze_ticket ever being requested
C19_Witness ==
    /\ pc = "returned"
    /\ DOMAIN results = {"generate_response", "classify_ticket", "final_summary"}
    /\ \A c \in ConversationCalls : c.function.name # "analyze_ticket"
    /\ \A i \in ToolResults : messages[i].content \in {Strip(t) : t \in StubTexts}

\* --------------------------------------------------------------------- C20
\* the next call has an arguments text that is not JSON, or names a registered
\* tool and leaves out one of its parameters or adds another
Malformed ==
    /\ pc = "calls"
    /\ \/ Head(pending).function.arguments.json = "garbage"
       \/ /\ Head(pending).function.name \in TOOL_MAP
          /\ Head(pending).function.arguments.json = "object"
          /\ DOMAIN Head(pending).function.arguments.fields
                # Params[Head(pending).function.name]

\* C20: a malformed call makes process_ticket raise there and then, with
\* nothing recorded or fed back for it; a well-formed call to a registered
\* tool passes on exactly the decoded arguments; and after a raise no call
\* from the failing one onward has a tool-result message.
C20_MalformedCallRaises ==
    /\ [](Malformed => ENABLED Next)
    /\ [][Malformed =>
            /\ pc' = "raised"
            /\ results' = results
            /\ messages' = messages
            /\ apiCalls' = apiCalls]_vars
    /\ [][Ready => cur'.args = Head(pending).function.arguments.fields]_vars
    /\ [](pc = "raised" =>
            \A j \in DOMAIN pending : \A i \in ToolResults :
                messages[i].tool_call_id # pending[j].id)

\* the second call of a round, to an unknown tool with an undecodable
\* arguments text, raised after the first call was answered
C20_Witness ==
    /\ pc = "raised"
    /\ failures = 0
    /\ Len(pending) = 1
    /\ Len(msg.tool_calls) = 2
    /\ Head(pending).function.name = "bogus_tool"
    /\ Head(pending).function.arguments.json = "garbage"
    /\ \E i \in ToolResults : messages[i].tool_call_id = msg.tool_calls[1].id
    /\ "bogus_tool" \notin DOMAIN results

\* --------------------------------------------------------------------- C21
\* the executed invocations that name a registered tool
ExecutedRegistered == {c \in Answered : c.function.name \in TOOL_MAP}

\* the next call names a tool that is not registered
UnknownNext == pc = "calls" /\ Head(pending).function.name \notin TOOL_MAP

\* C21: when process_ticket returns, the endpoint has received as many
\* requests as rounds were performed plus invocations of registered tools
\* were executed, and working off a call to an unknown tool sends none.
C21_RequestsAreRoundsPlusRegistered ==
    /\ [](pc = "returned" => Total = rounds + Cardinality(ExecutedRegistered))
    /\ [][UnknownNext => apiCalls' = apiCalls]_vars

\* a returned run with an unknown tool answered and more requests than the
\* round cap
C21_Witness ==
    /\ pc = "returned"
    /\ Total > max_iterations
    /\ ExecutedRegistered # {}
    /\ \E c \in Answered : c.function.name \notin TOOL_MAP

====
